---- MODULE Spec2Model ----
(***************************************************************************)
(* git-pend (src/index.js): scan a directory tree for git repositories and *)
(* report the ones with pending work.                                      *)
(*                                                                         *)
(* Strings of the program are sequences of one-character strings, so that  *)
(* startsWith, trim, split, the regular expressions and parseInt are       *)
(* computed character by character, as the JavaScript does.                *)
(***************************************************************************)
EXTENDS Integers, Sequences, FiniteSets, TLC

VARIABLES
    pc,               \* position of the control flow
    args,             \* process.argv.slice(2)
    searchPath,       \* main: searchPath
    maxDepth,         \* main: maxDepth / findGitRepos: maxDepth
    showAll,          \* main: showAll
    showHelp,         \* main: showHelp
    entries,          \* the file system below the scan root: path -> kind of entry
    repos,            \* result of findGitRepos
    idx,              \* main: number of repositories already processed by the loop
    q,                \* outcomes of the four git subprocesses of the current repository
    status,           \* getGitStatus: the record returned for the current repository
    statuses,         \* the records returned so far, in loop order
    reposWithChanges, \* main: reposWithChanges
    results,          \* main: results (one rendered line per listed repository)
    summary,          \* the three numbers of the printed summary
    exitCode          \* argument of process.exit

vars == <<pc, args, searchPath, maxDepth, showAll, showHelp, entries,
          repos, idx, q, status, statuses, reposWithChanges, results, summary,
          exitCode>>

(***************************************************************************)
(* Bounds of the model.                                                    *)
(***************************************************************************)
\* main: let maxDepth = 3
DefaultDepth == 3

MaxStatusLen == 3     \* characters of `git status --porcelain` output enumerated

(***************************************************************************)
(* Strings.                                                                *)
(***************************************************************************)
Range(s) == {s[i] : i \in 1..Len(s)}

SeqsUpTo(S, n) == UNION {[1..k -> S] : k \in 0..n}

\* String.prototype.trim strips white space and line terminators
WhiteSpace == {" ", "\t", "\n", "\r", "\f"}

RECURSIVE TrimStart(_)
TrimStart(s) ==
    IF s = <<>> THEN <<>>
    ELSE IF Head(s) \in WhiteSpace THEN TrimStart(Tail(s)) ELSE s

RECURSIVE TrimEnd(_)
TrimEnd(s) ==
    IF s = <<>> THEN <<>>
    ELSE IF s[Len(s)] \in WhiteSpace THEN TrimEnd(SubSeq(s, 1, Len(s) - 1)) ELSE s

trim(s) == TrimEnd(TrimStart(s))

startsWith(s, prefix) ==
    /\ Len(s) >= Len(prefix)
    /\ SubSeq(s, 1, Len(prefix)) = prefix

\* s.split('\n'): the pieces between the newlines, empty pieces included
RECURSIVE SplitFrom(_, _)
SplitFrom(s, cur) ==
    IF s = <<>> THEN <<cur>>
    ELSE IF Head(s) = "\n" THEN <<cur>> \o SplitFrom(Tail(s), <<>>)
    ELSE SplitFrom(Tail(s), Append(cur, Head(s)))

split(s) == SplitFrom(s, <<>>)

\* array.filter(line => line.trim())
NonBlank(line) == trim(line) # <<>>

filterNonBlank(ls) == SelectSeq(ls, NonBlank)

(***************************************************************************)
(* parseInt(s, 10).  NaN is the record with nan = TRUE.                    *)
(***************************************************************************)
Digits == {"0", "1", "2", "3", "4", "5", "6", "7", "8", "9"}

DigitVal(c) ==
    CASE c = "0" -> 0 [] c = "1" -> 1 [] c = "2" -> 2 [] c = "3" -> 3
      [] c = "4" -> 4 [] c = "5" -> 5 [] c = "6" -> 6 [] c = "7" -> 7
      [] c = "8" -> 8 [] c = "9" -> 9

NaN == [nan |-> TRUE, val |-> 0]

Num(n) == [nan |-> FALSE, val |-> n]

\* value of the longest prefix of digits of s, read after acc
RECURSIVE DigitPrefix(_, _)
DigitPrefix(s, acc) ==
    IF s = <<>> \/ Head(s) \notin Digits THEN acc
    ELSE DigitPrefix(Tail(s), 10 * acc + DigitVal(Head(s)))

parseIntUnsigned(s) ==
    IF s = <<>> \/ Head(s) \notin Digits THEN NaN ELSE Num(DigitPrefix(s, 0))

\* `undefined` (a missing argument) is passed as Undefined
Undefined == <<"undefined">>

parseInt(s) ==
    LET t == TrimStart(s) IN
    IF s = Undefined THEN NaN
    ELSE IF t # <<>> /\ Head(t) = "-"
         THEN LET r == parseIntUnsigned(Tail(t)) IN
              IF r.nan THEN NaN ELSE Num(0 - r.val)
    ELSE IF t # <<>> /\ Head(t) = "+" THEN parseIntUnsigned(Tail(t))
    ELSE parseIntUnsigned(t)

\* parseInt(...) || dflt : NaN and 0 are falsy
OrDefault(r, dflt) == IF r.nan \/ r.val = 0 THEN dflt ELSE r.val

(***************************************************************************)
(* getGitStatus (src/index.js:29-101).                                     *)
(* A query outcome is [ok, out]: ok = FALSE when execSync throws.          *)
(***************************************************************************)
Failed == [ok |-> FALSE, out |-> <<>>]

Ok(out) == [ok |-> TRUE, out |-> out]

DetachedHead == <<"d", "e", "t", "a", "c", "h", "e", "d", " ", "H", "E", "A", "D">>

StagedCodes == {"M", "A", "D", "R", "C"}

ModifiedCodes == {"M", "D"}

LineTerminators == {"\n", "\r"}

\* /^[MADRC]/.test(line)
IsStaged(line) == Len(line) >= 1 /\ line[1] \in StagedCodes

\* IsModified with the D left out of the character class
IsModified_OnlyM(line) ==
    /\ Len(line) >= 2
    /\ line[1] \notin LineTerminators
    /\ line[2] = "M"

\* /^.[MD]/.test(line)
IsModified(line) ==
    /\ Len(line) >= 2
    /\ line[1] \notin LineTerminators
    /\ line[2] \in ModifiedCodes

\* line.startsWith('??')
IsUntracked(line) == startsWith(line, <<"?", "?">>)

\* line.startsWith('UU') || line.startsWith('AA') || line.startsWith('DD')
IsConflict(line) ==
    \/ startsWith(line, <<"U", "U">>)
    \/ startsWith(line, <<"A", "A">>)
    \/ startsWith(line, <<"D", "D">>)

\* status.split('\n').filter(line => line.trim())
StatusLines(text) == filterNonBlank(split(text))

\* Branch with a catch block that leaves the initial 'unknown' in place
Branch_Unknown(bq) ==
    IF bq.ok
    THEN (IF trim(bq.out) # <<>> THEN trim(bq.out) ELSE DetachedHead)
    ELSE <<"u", "n", "k", "n", "o", "w", "n">>

Branch(bq) ==
    IF bq.ok
    THEN (IF trim(bq.out) # <<>> THEN trim(bq.out) ELSE DetachedHead)
    ELSE DetachedHead

Unpushed(aq) == IF aq.ok THEN OrDefault(parseInt(trim(aq.out)), 0) ELSE 0

Stashes(sq) == IF sq.ok THEN Len(filterNonBlank(split(sq.out))) ELSE 0

\* HasChanges without the stashes
HasChanges_NoStash(lines, unpushed, stashes) == Len(lines) > 0 \/ unpushed > 0

HasChanges(lines, unpushed, stashes) == Len(lines) > 0 \/ unpushed > 0 \/ stashes > 0

ErrorRecord == [error |-> "Command failed: git status --porcelain", hasChanges |-> FALSE]

getGitStatus(qs) ==
    IF ~qs.statusQ.ok THEN ErrorRecord
    ELSE LET lines == StatusLines(qs.statusQ.out)
             unpushed == Unpushed(qs.aheadQ)
             stashes == Stashes(qs.stashQ)
         IN [branch |-> Branch(qs.branchQ),
             staged |-> Len(SelectSeq(lines, IsStaged)),
             modified |-> Len(SelectSeq(lines, IsModified)),
             untracked |-> Len(SelectSeq(lines, IsUntracked)),
             conflicts |-> Len(SelectSeq(lines, IsConflict)),
             unpushed |-> unpushed,
             stashes |-> stashes,
             hasChanges |-> HasChanges(lines, unpushed, stashes)]

IsErrorRecord(r) == "error" \in DOMAIN r

(***************************************************************************)
(* The Status Collector on its own: every outcome of the four queries of   *)
(* one repository, then one call of getGitStatus.                          *)
(***************************************************************************)
StatusChars == {" ", "M", "A", "D", "R", "C", "?", "U", "T", "\n"}

\* the four lines of the documented classification example, as git prints them
ExampleStatus ==
    <<"M", " ", " ", "f", "\n", " ", "M", " ", "f", "\n",
      "?", "?", " ", "f", "\n", "U", "U", " ", "f", "\n">>

StatusTexts == SeqsUpTo(StatusChars, MaxStatusLen) \cup {ExampleStatus}

BranchOutputs == {<<>>, <<"m", "\n">>}

AheadOutputs == {<<>>, <<"0", "\n">>, <<"2", "\n">>}

StashOutputs == {<<>>, <<"s", "\n">>, <<"s", "\n", "s", "\n">>}

Outcomes(outs) == {Failed} \cup {Ok(o) : o \in outs}

Queries ==
    [statusQ : Outcomes(StatusTexts), branchQ : Outcomes(BranchOutputs),
     aheadQ : Outcomes(AheadOutputs), stashQ : Outcomes(StashOutputs)]

NoQuery == [statusQ |-> Failed, branchQ |-> Failed, aheadQ |-> Failed, stashQ |-> Failed]

NoStatus == [none |-> TRUE]

InitStatus ==
    /\ pc = "collect"
    /\ q \in Queries
    /\ status = NoStatus
    /\ args = <<>> /\ searchPath = <<>> /\ maxDepth = DefaultDepth
    /\ showAll = FALSE /\ showHelp = FALSE
    /\ entries = <<>> /\ repos = <<>> /\ idx = 0
    /\ statuses = <<>> /\ reposWithChanges = 0 /\ results = <<>>
    /\ summary = <<>> /\ exitCode = -1

Collect ==
    /\ pc = "collect"
    /\ status' = getGitStatus(q)
    /\ pc' = "collected"
    /\ UNCHANGED <<args, searchPath, maxDepth, showAll, showHelp, entries,
                   repos, idx, q, statuses, reposWithChanges, results, summary, exitCode>>

NextStatus == Collect

SpecStatus == InitStatus /\ [][NextStatus]_vars

Collected == pc = "collected" /\ ~IsErrorRecord(status)

\* the non-blank lines of the status text, as the claims speak of them
LinesOfQ == StatusLines(q.statusQ.out)

CountLines(P(_)) == Cardinality({i \in 1..Len(LinesOfQ) : P(LinesOfQ[i])})

FirstIn(line, S) == Len(line) >= 1 /\ line[1] \in S

SecondIn(line, S) == Len(line) >= 2 /\ line[2] \in S

BeginsWith(line, a, b) == Len(line) >= 2 /\ line[1] = a /\ line[2] = b

SpecStaged(line) == FirstIn(line, {"M", "A", "D", "R", "C"})

SpecModified(line) == SecondIn(line, {"M", "D"})

SpecUntracked(line) == BeginsWith(line, "?", "?")

SpecConflict(line) ==
    BeginsWith(line, "U", "U") \/ BeginsWith(line, "A", "A") \/ BeginsWith(line, "D", "D")

AnyCountPositive ==
    \/ status.staged > 0 \/ status.modified > 0 \/ status.untracked > 0
    \/ status.conflicts > 0 \/ status.unpushed > 0 \/ status.stashes > 0

\* C3 (as stated): in every non-error record, hasChanges is true iff one of the six
\* counts staged, modified, untracked, conflicts, unpushed, stashes is positive.
C3_Original == Collected => (status.hasChanges <=> AnyCountPositive)

\* C3 (amended): in every non-error record, hasChanges is true iff the status text has
\* at least one non-blank line, or unpushed > 0, or stashes > 0; a positive count
\* always implies hasChanges, but not the other way round.
C3_HasChanges ==
    Collected =>
        /\ status.hasChanges <=>
               (Len(LinesOfQ) > 0 \/ status.unpushed > 0 \/ status.stashes > 0)
        /\ AnyCountPositive => status.hasChanges

\* a status line that no category matches: hasChanges with all six counts zero
C3_Witness == Collected /\ status.hasChanges /\ ~AnyCountPositive

\* C7: the four counts are the numbers of non-blank status lines whose first character
\* is in MADRC, whose second is M or D, that begin with ??, that begin with UU/AA/DD,
\* each test applied independently; the documented example gives 1, 1, 1, 1.
C7_Classifier ==
    Collected =>
        /\ status.staged = CountLines(SpecStaged)
        /\ status.modified = CountLines(SpecModified)
        /\ status.untracked = CountLines(SpecUntracked)
        /\ status.conflicts = CountLines(SpecConflict)
        /\ q.statusQ.out = ExampleStatus =>
               /\ status.staged = 1 /\ status.modified = 1
               /\ status.untracked = 1 /\ status.conflicts = 1

\* one line counted as staged and as modified
C7_Witness ==
    /\ Collected
    /\ q.statusQ.out = <<"M", "M", "\n">>
    /\ status.staged = 1 /\ status.modified = 1

(***************************************************************************)
(* The file system below the scan root.  A path is the sequence of the     *)
(* names from the scan root (<<>>) down.  A tree maps each path that       *)
(* exists to its kind:                                                     *)
(*   "dir"    a directory without a .git entry                             *)
(*   "repo"   a directory that directly contains .git                      *)
(*   "file"   not a directory                                              *)
(*   "locked" a directory that cannot be listed nor searched               *)
(***************************************************************************)
MaxEntries == 3       \* entries below the scan root (walker on its own)

MaxWalkDepth == 1     \* largest maxDepth given to the walker on its own

A == <<"a">>

B == <<"b">>

DotGit == <<".", "g", "i", "t">>

Hidden == <<".", "h">>

NodeModules == <<"n", "o", "d", "e", "_", "m", "o", "d", "u", "l", "e", "s">>

Vendor == <<"v", "e", "n", "d", "o", "r">>

PyCache == <<"_", "_", "p", "y", "c", "a", "c", "h", "e", "_", "_">>

Names == {A, B, Hidden, NodeModules, Vendor, PyCache}

\* the order in which readdirSync returns the names of a directory
NameOrder == <<DotGit, Hidden, PyCache, A, B, NodeModules, Vendor>>

RootKinds == {"dir", "repo", "file", "locked"}

KindsOf(name) == IF name = A THEN RootKinds ELSE {"dir", "repo"}

CanHaveChildren(t, p) == t[p] \in {"dir", "repo"}

Extend(t) ==
    UNION {{t @@ (Append(p, n) :> k) : k \in KindsOf(n)} :
           <<p, n>> \in {x \in (DOMAIN t) \X Names :
                            /\ CanHaveChildren(t, x[1])
                            /\ Append(x[1], x[2]) \notin DOMAIN t}}

RECURSIVE Grow(_, _)
Grow(S, n) == IF n = 0 THEN S ELSE Grow(S \cup UNION {Extend(t) : t \in S}, n - 1)

Trees(n) == Grow({(<<>> :> k) : k \in RootKinds}, n)

(***************************************************************************)
(* isGitRepo and findGitRepos (src/index.js:21-24, 106-141).               *)
(***************************************************************************)
\* fs.existsSync(path.join(dirPath, '.git'))
isGitRepo(t, dirPath) == dirPath \in DOMAIN t /\ t[dirPath] = "repo"

\* fs.readdirSync(basePath) throws
ReadDirThrows(t, basePath) == basePath \notin DOMAIN t \/ t[basePath] \in {"file", "locked"}

HasEntry(t, basePath, name) ==
    \/ Append(basePath, name) \in DOMAIN t
    \/ name = DotGit /\ t[basePath] = "repo"

Dirent(t, basePath, name) ==
    [name |-> name,
     isDirectory |-> IF name = DotGit THEN TRUE ELSE t[Append(basePath, name)] # "file"]

\* fs.readdirSync(basePath, { withFileTypes: true })
ReadDir(t, basePath) ==
    LET present == SelectSeq(NameOrder, LAMBDA n : HasEntry(t, basePath, n))
    IN [i \in 1..Len(present) |-> Dirent(t, basePath, present[i])]

\* SkipName without vendor
SkipName_NoVendor(name) ==
    \/ startsWith(name, <<".">>)
    \/ name = NodeModules
    \/ name = PyCache

\* the names skipped as "common non-repo directories"
SkipName(name) ==
    \/ startsWith(name, <<".">>)
    \/ name = NodeModules
    \/ name = Vendor
    \/ name = PyCache

\* DepthExceeded one level late
DepthExceeded_Late(currentDepth, depthLimit) == currentDepth > depthLimit + 1

\* currentDepth > maxDepth
DepthExceeded(currentDepth, depthLimit) == currentDepth > depthLimit

RECURSIVE findGitRepos(_, _, _, _)
RECURSIVE ScanEntries(_, _, _, _, _)

\* OnRepo that also searches below the repository root
OnRepo_Descend(t, fullPath, depthLimit, currentDepth) ==
    <<fullPath>> \o findGitRepos(t, fullPath, depthLimit, currentDepth + 1)

\* the branch taken for a directory that is a repository root
OnRepo(t, fullPath, depthLimit, currentDepth) == <<fullPath>>

\* the body of the for loop, over the entries not yet visited
ScanEntries(t, basePath, es, depthLimit, currentDepth) ==
    IF es = <<>> THEN <<>>
    ELSE LET entry == Head(es)
             fullPath == Append(basePath, entry.name)
             rest == ScanEntries(t, basePath, Tail(es), depthLimit, currentDepth)
         IN IF ~entry.isDirectory THEN rest
            ELSE IF SkipName(entry.name) THEN rest
            ELSE IF isGitRepo(t, fullPath)
                 THEN OnRepo(t, fullPath, depthLimit, currentDepth) \o rest
            ELSE findGitRepos(t, fullPath, depthLimit, currentDepth + 1) \o rest

findGitRepos(t, basePath, depthLimit, currentDepth) ==
    IF DepthExceeded(currentDepth, depthLimit) THEN <<>>
    ELSE IF ReadDirThrows(t, basePath) THEN <<>>
    ELSE ScanEntries(t, basePath, ReadDir(t, basePath), depthLimit, currentDepth)

\* ScanRoot that tests the scan root itself for the marker first
ScanRoot_TestsRoot(t, depthLimit) ==
    IF isGitRepo(t, <<>>) THEN <<<<>>>> ELSE findGitRepos(t, <<>>, depthLimit, 0)

\* main: findGitRepos(searchPath, maxDepth)
ScanRoot(t, depthLimit) == findGitRepos(t, <<>>, depthLimit, 0)

(***************************************************************************)
(* The Tree Walker on its own: the file system below the scan root is      *)
(* populated entry by entry, then walked once with some maxDepth.          *)
(***************************************************************************)
InitWalk ==
    /\ pc = "setup"
    /\ entries \in {(<<>> :> k) : k \in RootKinds}
    /\ maxDepth = DefaultDepth
    /\ repos = <<>>
    /\ args = <<>> /\ searchPath = <<>>
    /\ showAll = FALSE /\ showHelp = FALSE
    /\ idx = 0 /\ q = NoQuery /\ status = NoStatus
    /\ statuses = <<>> /\ reposWithChanges = 0 /\ results = <<>>
    /\ summary = <<>> /\ exitCode = -1

\* a file, a directory or a repository appears below the scan root before the scan
AddEntry ==
    /\ pc = "setup"
    /\ Cardinality(DOMAIN entries) <= MaxEntries
    /\ entries' \in Extend(entries)
    /\ UNCHANGED <<pc, args, searchPath, maxDepth, showAll, showHelp, repos, idx, q,
                   status, statuses, reposWithChanges, results, summary, exitCode>>

Walk ==
    /\ pc = "setup"
    /\ \E d \in 0..MaxWalkDepth :
           /\ maxDepth' = d
           /\ repos' = ScanRoot(entries, d)
    /\ pc' = "walked"
    /\ UNCHANGED <<args, searchPath, showAll, showHelp, entries,
                   idx, q, status, statuses, reposWithChanges, results, summary, exitCode>>

NextWalk == AddEntry \/ Walk

SpecWalk == InitWalk /\ [][NextWalk]_vars

Walked == pc = "walked"

Reported == Range(repos)

IsProperPrefix(p, r) == Len(p) < Len(r) /\ SubSeq(r, 1, Len(p)) = p

PrunedName(name) ==
    \/ name \in {NodeModules, Vendor, PyCache}
    \/ (Len(name) >= 1 /\ name[1] = ".")

\* a repository of the tree that no pruned name hides
VisibleRepo(p) ==
    /\ p \in DOMAIN entries /\ entries[p] = "repo" /\ Len(p) >= 1
    /\ \A k \in 1..Len(p) : ~PrunedName(p[k])

\* C2 (as stated): no reported repository lies more than maxDepth levels below the
\* scan root.
C2_Original == Walked => \A i \in 1..Len(repos) : Len(repos[i]) <= maxDepth

\* C2 (amended): no reported repository lies more than maxDepth + 1 levels below the
\* scan root: the directories listed are those at depth 0..maxDepth, and each listed
\* directory's children are tested for the marker.
C2_Depth == Walked => \A i \in 1..Len(repos) : Len(repos[i]) <= maxDepth + 1

\* a repository at level maxDepth + 1 is reported and one at maxDepth + 2 is not
C2_Witness ==
    /\ Walked
    /\ \E i \in 1..Len(repos) : Len(repos[i]) = maxDepth + 1
    /\ \E p \in DOMAIN entries :
           /\ VisibleRepo(p) /\ Len(p) = maxDepth + 2 /\ p \notin Reported
           /\ \A k \in 1..(Len(p) - 1) : entries[SubSeq(p, 1, k)] = "dir"

\* C4: no reported path is an ancestor of (or equal to) another reported path, and no
\* repository below a reported repository is reported.
C4_NoNesting ==
    Walked =>
        /\ \A i, j \in 1..Len(repos) :
               i # j => repos[i] # repos[j] /\ ~IsProperPrefix(repos[i], repos[j])
        /\ \A p \in DOMAIN entries :
               (\E i \in 1..Len(repos) : IsProperPrefix(repos[i], p)) => p \notin Reported

\* a repository within the depth limit, nested in a reported one, is left out
C4_Witness ==
    /\ Walked
    /\ \E i \in 1..Len(repos) : \E p \in DOMAIN entries :
           /\ VisibleRepo(p) /\ IsProperPrefix(repos[i], p)
           /\ Len(p) <= maxDepth + 1

\* C5: no reported path has a component named node_modules, vendor or __pycache__, or
\* starting with '.': such a directory is neither reported (even with .git directly in
\* it) nor descended into.
C5_Pruned ==
    Walked =>
        \A i \in 1..Len(repos) : \A k \in 1..Len(repos[i]) : ~PrunedName(repos[i][k])

\* a pruned directory holding .git, and a repository below a pruned directory
C5_Witness ==
    /\ Walked
    /\ \E p \in DOMAIN entries :
           Len(p) = 1 /\ PrunedName(p[1]) /\ entries[p] = "repo"
    /\ \E p \in DOMAIN entries :
           /\ Len(p) = 2 /\ PrunedName(p[1]) /\ ~PrunedName(p[2])
           /\ entries[p] = "repo" /\ entries[SubSeq(p, 1, 1)] = "dir"

(***************************************************************************)
(* main (src/index.js:185-279).                                            *)
(***************************************************************************)
MaxArgs == 2          \* command-line arguments

MaxMainEntries == 2   \* entries below the scan root in a whole run

OptH == <<"-", "h">>

OptHelp == <<"-", "-", "h", "e", "l", "p">>

OptA == <<"-", "a">>

OptAll == <<"-", "-", "a", "l", "l">>

OptD == <<"-", "d">>

OptDepth == <<"-", "-", "d", "e", "p", "t", "h">>

Tokens ==
    {OptH, OptHelp, OptA, OptAll, OptD, OptDepth,
     <<"0">>, <<"1">>, <<"-", "1">>, <<"x">>, <<"p">>}

\* process.cwd()
Cwd == <<"/", "w">>

\* path.resolve(arg), for an argument that is a relative path
resolve(arg) == Cwd \o <<"/">> \o arg

\* the paths for which fs.existsSync(searchPath) is true
ExistingPaths == {Cwd, resolve(<<"p">>)}

\* args[i], undefined past the end
ArgAt(as, i) == IF i <= Len(as) THEN as[i] ELSE Undefined

\* the for loop over args, from index i on, with the options parsed so far in o
RECURSIVE ParseFrom(_, _, _)
ParseFrom(as, i, o) ==
    IF i > Len(as) THEN o
    ELSE LET arg == as[i] IN
         IF arg = OptH \/ arg = OptHelp
         THEN ParseFrom(as, i + 1, [o EXCEPT !.showHelp = TRUE])
         ELSE IF arg = OptA \/ arg = OptAll
         THEN ParseFrom(as, i + 1, [o EXCEPT !.showAll = TRUE])
         ELSE IF arg = OptD \/ arg = OptDepth
         THEN ParseFrom(as, i + 2,
                  [o EXCEPT !.maxDepth = OrDefault(parseInt(ArgAt(as, i + 1)), DefaultDepth)])
         ELSE IF ~startsWith(arg, <<"-">>)
         THEN ParseFrom(as, i + 1, [o EXCEPT !.searchPath = resolve(arg)])
         ELSE ParseFrom(as, i + 1, o)

ParseArgs(as) ==
    ParseFrom(as, 1, [searchPath |-> Cwd, maxDepth |-> DefaultDepth,
                      showAll |-> FALSE, showHelp |-> FALSE])

Null == [kind |-> "null", parts |-> <<>>]

Part(n, label) == IF n > 0 THEN <<label>> ELSE <<>>

\* formatStatus: the rendered line, reduced to its marker and its indicators
formatStatus(st) ==
    IF IsErrorRecord(st) THEN [kind |-> "error", parts |-> <<>>]
    ELSE IF ~st.hasChanges THEN Null
    ELSE [kind |-> "changed",
          parts |-> Part(st.staged, "staged") \o Part(st.modified, "modified")
                    \o Part(st.untracked, "untracked") \o Part(st.conflicts, "conflicts")
                    \o Part(st.unpushed, "unpushed") \o Part(st.stashes, "stashed")]

CleanLine == [kind |-> "clean", parts |-> <<>>]

\* the lines pushed to results for one repository
Rendered(st, all) ==
    LET formatted == formatStatus(st) IN
    IF formatted # Null THEN <<formatted>>
    ELSE IF all THEN <<CleanLine>> ELSE <<>>

\* reposWithChanges after one more record
CountChanges(n, st) == IF st.hasChanges THEN n + 1 ELSE n

Summary(total, withChanges) ==
    [total |-> total, withChanges |-> withChanges, clean |-> total - withChanges]

\* ExitStatus that needs two repositories with changes
ExitStatus_Two(withChanges) == IF withChanges > 1 THEN 1 ELSE 0

\* process.exit(reposWithChanges > 0 ? 1 : 0)
ExitStatus(withChanges) == IF withChanges > 0 THEN 1 ELSE 0

\* the outcomes of the git queries of a repository in a whole run
MainQueries ==
    [statusQ : {Failed, Ok(<<>>), Ok(<<" ", "M", " ", "f", "\n">>)},
     branchQ : {Failed, Ok(<<"m", "\n">>)},
     aheadQ : {Failed, Ok(<<"2", "\n">>)},
     stashQ : {Failed, Ok(<<"s", "\n">>)}]

NoTree == <<>>

NoSummary == [total |-> -1, withChanges |-> -1, clean |-> -1]

Init ==
    /\ pc = "start"
    /\ args \in SeqsUpTo(Tokens, MaxArgs)
    /\ searchPath = Cwd /\ maxDepth = DefaultDepth
    /\ showAll = FALSE /\ showHelp = FALSE
    /\ entries = NoTree /\ repos = <<>> /\ idx = 0
    /\ q = NoQuery /\ status = NoStatus /\ statuses = <<>>
    /\ reposWithChanges = 0 /\ results = <<>>
    /\ summary = NoSummary /\ exitCode = -1

\* lines 186-205
ParseArguments ==
    /\ pc = "start"
    /\ LET o == ParseArgs(args) IN
       /\ searchPath' = o.searchPath
       /\ maxDepth' = o.maxDepth
       /\ showAll' = o.showAll
       /\ showHelp' = o.showHelp
    /\ pc' = "parsed"
    /\ UNCHANGED <<args, entries, repos, idx, q, status, statuses, reposWithChanges,
                   results, summary, exitCode>>

\* lines 207-226
Help ==
    /\ pc = "parsed"
    /\ showHelp
    /\ exitCode' = 0
    /\ pc' = "exit"
    /\ UNCHANGED <<args, searchPath, maxDepth, showAll, showHelp, entries, repos, idx,
                   q, status, statuses, reposWithChanges, results, summary>>

\* lines 228-232
PathMissing ==
    /\ pc = "parsed"
    /\ ~showHelp
    /\ searchPath \notin ExistingPaths
    /\ exitCode' = 1
    /\ pc' = "exit"
    /\ UNCHANGED <<args, searchPath, maxDepth, showAll, showHelp, entries, repos, idx,
                   q, status, statuses, reposWithChanges, results, summary>>

\* lines 234-242: the tree found below searchPath is read here
Find ==
    /\ pc = "parsed"
    /\ ~showHelp
    /\ searchPath \in ExistingPaths
    /\ \E t \in Trees(MaxMainEntries) :
           /\ entries' = t
           /\ repos' = ScanRoot(t, maxDepth)
    /\ IF Len(repos') = 0
       THEN exitCode' = 0 /\ pc' = "exit"
       ELSE exitCode' = exitCode /\ pc' = "loop"
    /\ UNCHANGED <<args, searchPath, maxDepth, showAll, showHelp, idx, q, status,
                   statuses, reposWithChanges, results, summary>>

\* lines 248-264: one iteration of the loop over repos
CheckRepo ==
    /\ pc = "loop"
    /\ idx < Len(repos)
    /\ \E qs \in MainQueries :
           /\ q' = qs
           /\ status' = getGitStatus(qs)
    /\ statuses' = Append(statuses, status')
    /\ reposWithChanges' = CountChanges(reposWithChanges, status')
    /\ results' = results \o Rendered(status', showAll)
    /\ idx' = idx + 1
    /\ UNCHANGED <<pc, args, searchPath, maxDepth, showAll, showHelp, entries, repos,
                   summary, exitCode>>

\* lines 266-278
Summarise ==
    /\ pc = "loop"
    /\ idx = Len(repos)
    /\ summary' = Summary(Len(repos), reposWithChanges)
    /\ exitCode' = ExitStatus(reposWithChanges)
    /\ pc' = "exit"
    /\ UNCHANGED <<args, searchPath, maxDepth, showAll, showHelp, entries, repos, idx,
                   q, status, statuses, reposWithChanges, results>>

Next == ParseArguments \/ Help \/ PathMissing \/ Find \/ CheckRepo \/ Summarise

Spec == Init /\ [][Next]_vars

(***************************************************************************)
(* The invocation, as the claims speak of it.                              *)
(***************************************************************************)
\* position i holds the value of a preceding -d/--depth, not an option or a path
RECURSIVE IsValuePos(_, _)
IsValuePos(as, i) ==
    /\ i > 1
    /\ as[i - 1] \in {OptD, OptDepth}
    /\ ~IsValuePos(as, i - 1)

OptionPos == {i \in 1..Len(args) : ~IsValuePos(args, i)}

HelpGiven == \E i \in OptionPos : args[i] \in {OptH, OptHelp}

Positionals == {i \in OptionPos : args[i][1] # "-"}

Max(S) == CHOOSE m \in S : \A n \in S : n <= m

\* the scan path exists: the current directory, or the last path argument if it is p
ScanPathExists == Positionals = {} \/ args[Max(Positionals)] = <<"p">>

DepthOptions == {i \in OptionPos : args[i] \in {OptD, OptDepth}}

IsIntegerToken(v) ==
    LET body == IF v # <<>> /\ v[1] = "-" THEN Tail(v) ELSE v IN
    /\ v # Undefined
    /\ body # <<>>
    /\ \A k \in 1..Len(body) : body[k] \in Digits

\* the depth the documentation promises for the invocation
PromisedDepth ==
    IF DepthOptions = {} THEN 3
    ELSE LET v == ArgAt(args, Max(DepthOptions) + 1) IN
         IF IsIntegerToken(v) THEN parseInt(v).val ELSE 3

Scanned == entries # NoTree

NotScanned == entries = NoTree /\ repos = <<>> /\ statuses = <<>> /\ q = NoQuery

WithChanges == {i \in 1..Len(statuses) : statuses[i].hasChanges}

\* C1: at exit, the status is 0 after -h/--help (nothing scanned); else 1 when the scan
\* path does not exist (nothing scanned, no git call); else 1 iff some repository's
\* record has hasChanges, 0 otherwise (0 with no repository); the summary gives
\* total = repositories found, withChanges = records with hasChanges, clean = the rest.
C1_ExitStatus ==
    pc = "exit" =>
        IF HelpGiven THEN exitCode = 0 /\ NotScanned
        ELSE IF ~ScanPathExists THEN exitCode = 1 /\ NotScanned
        ELSE /\ Scanned
             /\ Len(statuses) = Len(repos)
             /\ exitCode = (IF WithChanges # {} THEN 1 ELSE 0)
             /\ Len(repos) = 0 => exitCode = 0 /\ summary = NoSummary
             /\ Len(repos) > 0 =>
                    /\ summary.total = Len(repos)
                    /\ summary.withChanges = Cardinality(WithChanges)
                    /\ summary.clean = Len(repos) - Cardinality(WithChanges)

\* two repositories, one of them with changes: exit status 1, summary 2 / 1 / 1
C1_Witness ==
    /\ pc = "exit" /\ Len(repos) = 2 /\ Cardinality(WithChanges) = 1
    /\ exitCode = 1 /\ summary = [total |-> 2, withChanges |-> 1, clean |-> 1]

SameExcept(r1, r2, fields) ==
    /\ DOMAIN r1 = DOMAIN r2
    /\ \A f \in DOMAIN r1 \ fields : r1[f] = r2[f]

\* the queries that differ from q in the outcome of query f only
Variants(f) == {v \in MainQueries : \A g \in DOMAIN q \ {f} : v[g] = q[g]}

\* C6: the record is an error record iff the status query failed; a failed branch query
\* gives the detached-head sentinel, a failed ahead query unpushed = 0, a failed stash
\* query stashes = 0, and the outcome of each of these three queries changes nothing
\* but its own field (and hasChanges); the loop holds one record per repository
\* processed, whatever failed before.
C6_FailureIsolation ==
    /\ Len(statuses) = idx
    /\ (pc = "exit" /\ Scanned) => Len(statuses) = Len(repos)
    /\ idx > 0 =>
           /\ statuses[idx] = status
           /\ IsErrorRecord(status) <=> ~q.statusQ.ok
           /\ q.statusQ.ok =>
                  /\ ~q.branchQ.ok => status.branch = DetachedHead
                  /\ ~q.aheadQ.ok => status.unpushed = 0
                  /\ ~q.stashQ.ok => status.stashes = 0
                  /\ \A v \in Variants("branchQ") :
                         SameExcept(getGitStatus(v), status, {"branch"})
                  /\ \A v \in Variants("aheadQ") :
                         SameExcept(getGitStatus(v), status, {"unpushed", "hasChanges"})
                  /\ \A v \in Variants("stashQ") :
                         SameExcept(getGitStatus(v), status, {"stashes", "hasChanges"})

\* an error record first, then a repository whose three other queries all fail
C6_Witness ==
    /\ pc = "exit" /\ idx = 2
    /\ IsErrorRecord(statuses[1])
    /\ ~IsErrorRecord(statuses[2])
    /\ ~q.branchQ.ok /\ ~q.aheadQ.ok /\ ~q.stashQ.ok

\* C8 (as stated): the depth given to the walker is 3 without -d/--depth, N for an
\* integer value N, and 3 for a value that is not a number or is missing.
C8_Depth == pc # "start" => maxDepth = PromisedDepth

\* C9 (as stated): the clean count of the summary counts only the repositories whose
\* status was collected and shows no changes; an error record is not counted as clean.
C9_CleanCount ==
    (pc = "exit" /\ summary # NoSummary) =>
        summary.clean =
            Cardinality({i \in 1..Len(statuses) :
                            ~IsErrorRecord(statuses[i]) /\ ~statuses[i].hasChanges})

\* the repositories the walk is to report: visible, within reach of the depth limit,
\* below directories that are not repositories themselves
Expected ==
    {p \in DOMAIN entries :
        /\ VisibleRepo(p)
        /\ Len(p) <= maxDepth + 1
        /\ \A k \in 1..(Len(p) - 1) : entries[SubSeq(p, 1, k)] = "dir"}

\* C10: the scan root is never reported; whether or not it contains .git, the walk
\* reports exactly the repositories found below it under the pruning and depth rules;
\* a scan of a repository root without repositories below reports none and exits 0.
C10_RootNotTested ==
    Scanned =>
        /\ <<>> \notin Reported
        /\ Reported = Expected
        /\ (pc = "exit" /\ entries[<<>>] = "repo" /\ Expected = {}) =>
               repos = <<>> /\ exitCode = 0

\* the scan root contains .git and a repository below it is reported
C10_Witness ==
    /\ Scanned /\ pc = "exit"
    /\ entries[<<>>] = "repo"
    /\ Len(repos) >= 1

====
